---- MODULE Spec2Model ----
(***************************************************************************)
(* PRFS (fat32prfs): the open-time write interception of src/file.c        *)
(* (prfs_file_open, prfs_make_backup, the name codec) and the /proc mode   *)
(* channel of src/proc_handler.c.                                          *)
(*                                                                         *)
(* Characters are their ASCII codes, strings are sequences of codes, so    *)
(* the comparisons of the C code ( < '0', > '9' ) are the same comparisons *)
(* here.  File names are the leaf names (d_iname) of one directory.        *)
(***************************************************************************)
EXTENDS Integers, Sequences, FiniteSets, TLC

(***************************************************************************)
(* Bounds of the model.                                                    *)
(***************************************************************************)
\* longest content a user write stores in a file (bytes)
MaxData == 1
\* most uninitialised bytes of buf[] that are read past the copied text
MaxGarbage == 1

\* the opening threads
Threads == {"t1", "t2"}

(***************************************************************************)
(* Program constants.                                                      *)
(***************************************************************************)
BUFSIZE == 100
EFAULT == 14
CH_0 == 48
CH_9 == 57
CH_US == 95
CH_MINUS == 45
CH_NL == 10
CH_NUL == 0
BackupPrefixLen == 15

(***************************************************************************)
(* Sequence helpers.                                                       *)
(***************************************************************************)
Take(s, n) == SubSeq(s, 1, IF n < Len(s) THEN n ELSE Len(s))
Drop(s, n) == SubSeq(s, n + 1, Len(s))

RECURSIVE Repeat(_, _)
Repeat(c, n) == IF n <= 0 THEN <<>> ELSE <<c>> \o Repeat(c, n - 1)

\* all sequences over S of length 0..n
RECURSIVE SeqsUpTo(_, _)
SeqsUpTo(S, n) ==
  IF n = 0 THEN {<<>>}
  ELSE LET shorter == SeqsUpTo(S, n - 1)
       IN  shorter \cup {Append(s, c) : s \in {x \in shorter : Len(x) = n - 1}, c \in S}

isdigit(c) == c >= CH_0 /\ c <= CH_9

\* the characters of a C string: the bytes before the first NUL
RECURSIVE CStr(_)
CStr(bytes) ==
  IF bytes = <<>> \/ Head(bytes) = CH_NUL THEN <<>>
  ELSE <<Head(bytes)>> \o CStr(Tail(bytes))

(***************************************************************************)
(* printf("%0<w>u"): decimal digits, zero padded to at least w characters. *)
(***************************************************************************)
RECURSIVE DecDigits(_)
DecDigits(n) ==
  IF n < 10 THEN <<CH_0 + n>> ELSE Append(DecDigits(n \div 10), CH_0 + (n % 10))

ZeroPad(w, digits) == Repeat(CH_0, w - Len(digits)) \o digits

(***************************************************************************)
(* filename_backup: 1 iff the name starts with _NNNNNNNNNNNNN_              *)
(***************************************************************************)
\* mutant: fname[14] is not tested
filename_backup_NoEndMark(fname) ==
  IF Len(fname) < BackupPrefixLen THEN 0
  ELSE IF fname[1] # CH_US THEN 0
  ELSE IF \E s_idx \in 1..13 : fname[s_idx + 1] < CH_0 \/ fname[s_idx + 1] > CH_9 THEN 0
  ELSE 1

\* mutant: the digit loop runs one character too far (s_idx <= 14)
filename_backup_LoopTo14(fname) ==
  IF Len(fname) < BackupPrefixLen THEN 0
  ELSE IF fname[1] # CH_US THEN 0
  ELSE IF fname[15] # CH_US THEN 0
  ELSE IF \E s_idx \in 1..14 : fname[s_idx + 1] < CH_0 \/ fname[s_idx + 1] > CH_9 THEN 0
  ELSE 1

filename_backup(fname) ==
  IF Len(fname) < BackupPrefixLen THEN 0
  ELSE IF fname[1] # CH_US THEN 0
  ELSE IF fname[15] # CH_US THEN 0
  ELSE IF \E s_idx \in 1..13 : fname[s_idx + 1] < CH_0 \/ fname[s_idx + 1] > CH_9 THEN 0
  ELSE 1

(***************************************************************************)
(* create_backup_filename_trailing.  now.tv_sec is a 64-bit count; it is   *)
(* held as hi * 10^9 + lo (0 <= lo < 10^9) so that counts of 10^10 and     *)
(* more stay within the checker's integers.  "%015llu" prints it in at     *)
(* least 15 digits and snprintf(.., 16, ..) keeps the first 15 characters. *)
(***************************************************************************)
SecDigits(tv_sec) ==
  IF tv_sec.hi = 0 THEN DecDigits(tv_sec.lo)
  ELSE DecDigits(tv_sec.hi) \o ZeroPad(9, DecDigits(tv_sec.lo))

\* mutant: the milliseconds are taken from stmp2[1..3]
create_backup_filename_trailing_MsShift(now) ==
  LET stmp1 == Take(ZeroPad(15, SecDigits(now.tv_sec)), 15)
      stmp2 == Take(ZeroPad(9, DecDigits(now.tv_nsec)), 9)
  IN  <<CH_US>> \o SubSeq(stmp1, 6, 15) \o SubSeq(stmp2, 2, 4) \o <<CH_US>>

\* mutant: the last snprintf has size 15, which cuts the closing '_'
create_backup_filename_trailing_Size15(now) ==
  LET stmp1 == Take(ZeroPad(15, SecDigits(now.tv_sec)), 15)
      stmp2 == Take(ZeroPad(9, DecDigits(now.tv_nsec)), 9)
  IN  Take(<<CH_US>> \o SubSeq(stmp1, 6, 15) \o SubSeq(stmp2, 1, 3) \o <<CH_US>>, 14)

create_backup_filename_trailing(now) ==
  LET stmp1 == Take(ZeroPad(15, SecDigits(now.tv_sec)), 15)
      stmp2 == Take(ZeroPad(9, DecDigits(now.tv_nsec)), 9)
  IN  <<CH_US>> \o SubSeq(stmp1, 6, 15) \o SubSeq(stmp2, 1, 3) \o <<CH_US>>

\* fn2 of prfs_make_backup: snprintf(fn2, sizeof fn2, "%s%s", tme, fname)
BackupFileName(now, fname) == Take(create_backup_filename_trailing(now) \o fname, 259)


(***************************************************************************)
(* The world of the model: one original file, the timestamps the clock can *)
(* return, the data users write, the texts written to /proc/prfs_mode.     *)
(***************************************************************************)
OrigNames == {<<114>>}

\* ktime_get_real_ts64: two instants of one millisecond, and a later one
Times ==
  { [tv_sec |-> [hi |-> 0, lo |-> 5], tv_nsec |-> 1000000],
    [tv_sec |-> [hi |-> 0, lo |-> 5], tv_nsec |-> 1999999],
    [tv_sec |-> [hi |-> 0, lo |-> 6], tv_nsec |-> 0] }

FileNames == OrigNames \cup {BackupFileName(now, o) : now \in Times, o \in OrigNames}

\* what a holder of a write handle stores: "A", or MaxData times "B"
WriteData == {<<65>>, Repeat(66, MaxData)}

NoFile == [exists |-> FALSE, data |-> <<>>]
File(d) == [exists |-> TRUE, data |-> d]

NoName == <<>>
NoTime == [tv_sec |-> [hi |-> 0, lo |-> 0], tv_nsec |-> 0]
NoReq == [name |-> NoName, write |-> FALSE, justCreated |-> FALSE]

\* bytes an uninitialised buf[] may hold behind the copied text: a digit, a letter
GarbageBytes == {CH_9, 120}
Garbage == SeqsUpTo(GarbageBytes, MaxGarbage)

\* user buffers handed to write(2) on /proc/prfs_mode:
\* "0\n" "1\n" "2\n" "3\n" "-1\n" "x\n", "2" without terminator, 101 newlines
ModeBufs == {<<CH_0, CH_NL>>, <<CH_0 + 1, CH_NL>>, <<CH_0 + 2, CH_NL>>}
UserBufs ==
  ModeBufs \cup
  { <<CH_0 + 3, CH_NL>>, <<CH_MINUS, CH_0 + 1, CH_NL>>, <<120, CH_NL>>, <<CH_0 + 2>>,
    Repeat(CH_NL, BUFSIZE + 1) }

VARIABLES
  proc_prfs_mode,  \* int proc_prfs_mode (proc_handler.c)
  ctl_in,          \* ubuf of the last prfsproc_write call
  ctl_ret,         \* its return value
  ctl_stored,      \* history: some prfsproc_write call has assigned proc_prfs_mode
  files,           \* the host store: name -> [exists, data]
  pc,              \* where each thread is in its open
  req,             \* the open request: d_iname, write intent, FMODE_CREATED
  prfs_mode,       \* prfs_file_open's local prfs_mode
  verdict,         \* the branch prfs_file_open took
  fn2,             \* prfs_make_backup's destination name
  denial,          \* which "return -1" / failed filp_open ended the open (the printk line)
  pre,             \* content of req.name when prfs_file_open called for a backup of it
  original_filp,   \* prfs_make_backup's local original_filp: "none", "open" or "closed"
  copy_filp,       \* prfs_make_backup's local copy_filp: "none", "open" or "closed"
  rd_ret,          \* return value of the last prfsproc_read call
  rd_out,          \* the bytes it copied to the reader's buffer
  cb_op,           \* the name codec called on its own: "none", "check", "build"
  cb_fname,        \* the name passed to filename_backup / prfs_make_backup
  cb_now,          \* what ktime_get_real_ts64 returned
  cb_tme,          \* tme[] as create_backup_filename_trailing left it
  cb_fn2,          \* fn2[] as prfs_make_backup built it
  cb_ret           \* what filename_backup returned

vars == <<proc_prfs_mode, ctl_in, ctl_ret, ctl_stored, files, pc, req, prfs_mode, verdict, fn2, denial, pre,
          original_filp, copy_filp,
          rd_ret, rd_out, cb_op, cb_fname, cb_now, cb_tme, cb_fn2, cb_ret>>
rdvars == <<rd_ret, rd_out>>
codecvars == <<cb_op, cb_fname, cb_now, cb_tme, cb_fn2, cb_ret>>
ctlvars == <<proc_prfs_mode, ctl_in, ctl_ret, ctl_stored>>
filpvars == <<original_filp, copy_filp>>
thrvars == <<pc, req, prfs_mode, verdict, fn2, denial, pre, original_filp, copy_filp>>

(***************************************************************************)
(* proc_handler.c                                                          *)
(***************************************************************************)
get_proc_prfs_mode == proc_prfs_mode

isspace(c) == c \in {32, 9, 10, 11, 12, 13}

RECURSIVE skip_spaces(_)
skip_spaces(str) ==
  IF str # <<>> /\ isspace(Head(str)) THEN skip_spaces(Tail(str)) ELSE str

\* simple_strtoull: the value of the leading decimal digits
RECURSIVE DigitsValue(_, _)
DigitsValue(str, acc) ==
  IF str # <<>> /\ isdigit(Head(str))
  THEN DigitsValue(Tail(str), acc * 10 + (Head(str) - CH_0))
  ELSE acc

\* sscanf(buf, "%d", &mode): [num, mode]
sscanf_d(buf) ==
  LET str == skip_spaces(buf)
      neg == str # <<>> /\ Head(str) = CH_MINUS
      body == IF neg THEN Tail(str) ELSE str
  IN  IF body = <<>> \/ ~isdigit(Head(body))
      THEN [num |-> 0, mode |-> 0]
      ELSE [num |-> 1, mode |-> IF neg THEN 0 - DigitsValue(body, 0) ELSE DigitsValue(body, 0)]

\* prfsproc_write.  buf[] is not initialised and not terminated after
\* copy_from_user: sscanf and strlen read on into the bytes g behind the text.
prfsproc_write(ubuf, ppos, fault, g) ==
  LET count == Len(ubuf)
      buf == CStr(ubuf \o g)
      sc == sscanf_d(buf)
  IN  /\ ctl_in' = ubuf
      /\ IF ppos > 0 \/ count > BUFSIZE THEN
           /\ ctl_ret' = 0 - EFAULT
           /\ UNCHANGED <<proc_prfs_mode, ctl_stored>>
         ELSE IF fault THEN
           /\ ctl_ret' = 0 - EFAULT
           /\ UNCHANGED <<proc_prfs_mode, ctl_stored>>
         ELSE IF sc.num < 1 THEN
           /\ ctl_ret' = 0 - EFAULT
           /\ UNCHANGED <<proc_prfs_mode, ctl_stored>>
         ELSE
           /\ proc_prfs_mode' = sc.mode
           /\ ctl_stored' = TRUE
           /\ ctl_ret' = Len(buf)
      /\ UNCHANGED <<files, thrvars, rdvars, codecvars>>

\* sprintf(buf, "%d", v)
sprintf_d(v) == IF v < 0 THEN <<CH_MINUS>> \o DecDigits(0 - v) ELSE DecDigits(v)

\* prfsproc_read: nothing at a non-zero offset or into a buffer of fewer than
\* BUFSIZE bytes; else the stored integer and a newline
prfsproc_read(count, ppos, fault) ==
  LET buf == sprintf_d(proc_prfs_mode) \o <<CH_NL>>
  IN  /\ IF ppos > 0 \/ count < BUFSIZE THEN
           /\ rd_ret' = 0
           /\ rd_out' = <<>>
         ELSE IF fault THEN
           /\ rd_ret' = 0 - EFAULT
           /\ rd_out' = <<>>
         ELSE
           /\ rd_ret' = Len(buf)
           /\ rd_out' = buf
      /\ UNCHANGED <<ctlvars, files, thrvars, codecvars>>

(***************************************************************************)
(* file.c                                                                  *)
(***************************************************************************)
\* mutant: the lower clamp is missing
get_prfs_mode_NoLowerClamp ==
  LET m0 == get_proc_prfs_mode
  IN  IF m0 > 2 THEN 1 ELSE m0

\* mutant: the upper clamp is missing
get_prfs_mode_NoUpperClamp ==
  LET m0 == get_proc_prfs_mode
  IN  IF m0 < 0 THEN 1 ELSE m0

get_prfs_mode ==
  LET m0 == get_proc_prfs_mode
      m1 == IF m0 < 0 THEN 1 ELSE m0
  IN  IF m1 > 2 THEN 1 ELSE m1

\* mutant: the access-mode test takes every open for a write
file_readwrite_Always(filp) == 1
\* mutant: the access-mode test never sees a write
file_readwrite_Never(filp) == 0
\* (f_flags & 3) > 0: O_WRONLY or O_RDWR
file_readwrite(filp) == IF filp.write THEN 1 ELSE 0

\* mutant: the flag test is always true
file_justcreated_Always(filp) == 1
\* (f_mode & O_SYNC) > 0: the bit of FMODE_CREATED
file_justcreated(filp) == IF filp.justCreated THEN 1 ELSE 0

\* mutant: case 1 has no return -1
Decide_ReadOnlyAllows(mode, filp) ==
  CASE mode = 0 ->
         IF file_readwrite(filp) = 1 THEN
           IF filename_backup(filp.name) = 1 THEN
             IF file_justcreated(filp) = 0 THEN "Deny" ELSE "Allow"
           ELSE
             IF file_justcreated(filp) = 1 THEN "Allow" ELSE "AllowAfterBackup"
         ELSE "Allow"
    [] mode = 1 -> "Allow"
    [] mode = 2 ->
         IF file_readwrite(filp) = 1 /\ filename_backup(filp.name) = 0 THEN "Deny" ELSE "Allow"
    [] OTHER -> "Deny"

\* mutant: the two branches of the justcreated test of a non-backup name swapped
Decide_SwappedCreated(mode, filp) ==
  CASE mode = 0 ->
         IF file_readwrite(filp) = 1 THEN
           IF filename_backup(filp.name) = 1 THEN
             IF file_justcreated(filp) = 0 THEN "Deny" ELSE "Allow"
           ELSE
             IF file_justcreated(filp) = 0 THEN "Allow" ELSE "AllowAfterBackup"
         ELSE "Allow"
    [] mode = 1 ->
         IF file_readwrite(filp) = 1 THEN "Deny" ELSE "Allow"
    [] mode = 2 ->
         IF file_readwrite(filp) = 1 /\ filename_backup(filp.name) = 0 THEN "Deny" ELSE "Allow"
    [] OTHER -> "Deny"

\* mutant: case 2 lets a write open of a just created file through, as case 0 does
Decide_CreateInBackupOnly(mode, filp) ==
  CASE mode = 0 ->
         IF file_readwrite(filp) = 1 THEN
           IF filename_backup(filp.name) = 1 THEN
             IF file_justcreated(filp) = 0 THEN "Deny" ELSE "Allow"
           ELSE
             IF file_justcreated(filp) = 1 THEN "Allow" ELSE "AllowAfterBackup"
         ELSE "Allow"
    [] mode = 1 ->
         IF file_readwrite(filp) = 1 THEN "Deny" ELSE "Allow"
    [] mode = 2 ->
         IF /\ file_readwrite(filp) = 1 /\ filename_backup(filp.name) = 0
            /\ file_justcreated(filp) = 0
         THEN "Deny" ELSE "Allow"
    [] OTHER -> "Deny"

\* the switch of prfs_file_open, up to the point where it returns -1 ("Deny"),
\* calls prfs_make_backup ("AllowAfterBackup") or falls to generic_file_open ("Allow")
Decide(mode, filp) ==
  CASE mode = 0 ->
         IF file_readwrite(filp) = 1 THEN
           IF filename_backup(filp.name) = 1 THEN
             IF file_justcreated(filp) = 0 THEN "Deny" ELSE "Allow"
           ELSE
             IF file_justcreated(filp) = 1 THEN "Allow" ELSE "AllowAfterBackup"
         ELSE "Allow"
    [] mode = 1 ->
         IF file_readwrite(filp) = 1 THEN "Deny" ELSE "Allow"
    [] mode = 2 ->
         IF file_readwrite(filp) = 1 /\ filename_backup(filp.name) = 0 THEN "Deny" ELSE "Allow"
    [] OTHER -> "Deny"

Set(f, t, v) == [f EXCEPT ![t] = v]

\* open(2) reaches the file system: the host store looks the name up, creates
\* it when it is absent (an O_CREAT open: FMODE_CREATED), and calls
\* f_op->open = prfs_file_open.  An open of an absent name without O_CREAT
\* fails in the host store and never gets here.
OpenCall(t, name, write) ==
  /\ pc[t] = "idle"
  /\ LET created == ~files[name].exists
     IN  /\ files' = IF created THEN Set(files, name, File(<<>>)) ELSE files
         /\ req' = Set(req, t, [name |-> name, write |-> write, justCreated |-> created])
  /\ pc' = Set(pc, t, "entry")
  /\ UNCHANGED <<ctlvars, rdvars, codecvars, filpvars, prfs_mode, verdict, fn2, denial, pre>>

\* prfs_file_open: sample the mode, take the switch
FileOpen(t) ==
  /\ pc[t] = "entry"
  /\ LET mode == get_prfs_mode
         v == Decide(mode, req[t])
     IN  /\ prfs_mode' = Set(prfs_mode, t, mode)
         /\ verdict' = Set(verdict, t, v)
         /\ pc' = Set(pc, t, CASE v = "Deny" -> "denied"
                               [] v = "Allow" -> "forward"
                               [] OTHER -> "mb_src")
         /\ denial' = Set(denial, t, IF v = "Deny" THEN "decision" ELSE "none")
         /\ pre' = Set(pre, t, IF v = "AllowAfterBackup" THEN files[req[t].name].data ELSE <<>>)
  /\ UNCHANGED <<ctlvars, rdvars, codecvars, filpvars, files, req, fn2>>


\* mutant: prfs_make_backup opens the original O_RDWR, not O_RDONLY
InnerOpen_SrcReadWrite(name, write, created) ==
  Decide(get_prfs_mode, [name |-> name, write |-> TRUE, justCreated |-> created])

\* the verdict of the open that filp_open makes inside prfs_make_backup: the
\* file is in the same directory, so f_op->open is prfs_file_open again, with
\* the mode as it is now
InnerOpen(name, write, created) ==
  Decide(get_prfs_mode, [name |-> name, write |-> write, justCreated |-> created])

\* prfs_make_backup, lines 354-365: build fn2 from the clock, open the
\* original read-only.  hostok: the host store's part of filp_open succeeds.
MakeBackupOpenSrc(t, now, hostok) ==
  /\ pc[t] = "mb_src"
  /\ fn2' = Set(fn2, t, BackupFileName(now, req[t].name))
  /\ LET v == IF hostok /\ files[req[t].name].exists
              THEN InnerOpen(req[t].name, FALSE, FALSE) ELSE "Deny"
     IN  /\ pc' = Set(pc, t, CASE v = "Allow" -> "mb_dst"
                               [] v = "Deny" -> "denied"
                               [] OTHER -> "nested")
         /\ denial' = Set(denial, t, IF v = "Deny" THEN "backup_src" ELSE "none")
         /\ original_filp' = Set(original_filp, t, IF v = "Allow" THEN "open" ELSE "none")
  /\ UNCHANGED <<ctlvars, rdvars, codecvars, files, req, prfs_mode, verdict, pre, copy_filp>>

\* prfs_make_backup, lines 366-372: filp_open(fn2, O_CREAT | O_RDWR, 0644).
\* When it fails the function returns -1 without a filp_close(original_filp).
\* The host store creates fn2 when it is absent (FMODE_CREATED) and opens it
\* when it is there; then prfs_file_open decides on the open of fn2.
MakeBackupOpenDst(t, hostok) ==
  /\ pc[t] = "mb_dst"
  /\ IF ~hostok THEN
       /\ pc' = Set(pc, t, "denied")
       /\ denial' = Set(denial, t, "backup_dst_host")
       /\ files' = files
       /\ copy_filp' = copy_filp
     ELSE
       LET created == ~files[fn2[t]].exists
           v == InnerOpen(fn2[t], TRUE, created)
       IN  /\ files' = IF created THEN Set(files, fn2[t], File(<<>>)) ELSE files
           /\ pc' = Set(pc, t, CASE v = "Allow" -> "mb_copy"
                                 [] v = "Deny" -> "denied"
                                 [] OTHER -> "nested")
           /\ denial' = Set(denial, t, IF v = "Deny" THEN "backup_dst_open" ELSE "none")
           /\ copy_filp' = Set(copy_filp, t, IF v = "Allow" THEN "open" ELSE "none")
  /\ UNCHANGED <<ctlvars, rdvars, codecvars, req, prfs_mode, verdict, fn2, pre, original_filp>>

\* bytes written at offset 0 of a file that is not truncated
WriteAt0(old, bytes) == bytes \o Drop(old, Len(bytes))

\* prfs_make_backup, lines 373-379: vfs_copy_file_range of i_size_read(source)
\* bytes, of which the host store copies k; the result is not looked at, both
\* files are closed and 0 is returned
MakeBackupCopy(t, k) ==
  /\ pc[t] = "mb_copy"
  /\ LET src == files[req[t].name].data
     IN  /\ k <= Len(src)
         /\ files' = Set(files, fn2[t], File(WriteAt0(files[fn2[t]].data, Take(src, k))))
  /\ pc' = Set(pc, t, "forward")
  /\ original_filp' = Set(original_filp, t, "closed")
  /\ copy_filp' = Set(copy_filp, t, "closed")
  /\ UNCHANGED <<ctlvars, rdvars, codecvars, req, prfs_mode, verdict, fn2, denial, pre>>

\* prfs_file_open, lines 524-525: rtv = generic_file_open(inode, filp) and
\* return; the locals of the call are gone
Forward(t) ==
  /\ pc[t] = "forward"
  /\ pc' = Set(pc, t, "opened")
  /\ prfs_mode' = Set(prfs_mode, t, 1)
  /\ verdict' = Set(verdict, t, "None")
  /\ fn2' = Set(fn2, t, NoName)
  /\ pre' = Set(pre, t, <<>>)
  /\ original_filp' = Set(original_filp, t, "none")
  /\ copy_filp' = Set(copy_filp, t, "none")
  /\ UNCHANGED <<ctlvars, rdvars, codecvars, files, req, denial>>

\* the holder of a handle opened for writing replaces the file's content
UserWrite(t, data) ==
  /\ pc[t] = "opened"
  /\ req[t].write
  /\ files' = Set(files, req[t].name, File(data))
  /\ UNCHANGED <<ctlvars, rdvars, codecvars, thrvars>>

\* the open is over: the handle is closed, or the failed open has returned
Finish(t) ==
  /\ pc[t] \in {"opened", "denied"}
  /\ pc' = Set(pc, t, "idle")
  /\ req' = Set(req, t, NoReq)
  /\ prfs_mode' = Set(prfs_mode, t, 1)
  /\ verdict' = Set(verdict, t, "None")
  /\ fn2' = Set(fn2, t, NoName)
  /\ denial' = Set(denial, t, "none")
  /\ pre' = Set(pre, t, <<>>)
  /\ original_filp' = Set(original_filp, t, "none")
  /\ copy_filp' = Set(copy_filp, t, "none")
  /\ UNCHANGED <<ctlvars, rdvars, codecvars, files>>

\* filename_backup called on a name
CallFilenameBackup(fname) ==
  /\ cb_op' = "check"
  /\ cb_fname' = fname
  /\ cb_ret' = filename_backup(fname)
  /\ cb_now' = NoTime
  /\ cb_tme' = <<>>
  /\ cb_fn2' = NoName
  /\ UNCHANGED <<ctlvars, rdvars, files, thrvars>>

\* prfs_make_backup, lines 354-355, with the clock at now: tme, then fn2; and
\* filename_backup as the open of fn2 (line 367) calls it on that name
BuildBackupName(now, fname) ==
  /\ cb_op' = "build"
  /\ cb_fname' = fname
  /\ cb_now' = now
  /\ cb_tme' = create_backup_filename_trailing(now)
  /\ cb_fn2' = BackupFileName(now, fname)
  /\ cb_ret' = filename_backup(BackupFileName(now, fname))
  /\ UNCHANGED <<ctlvars, rdvars, files, thrvars>>

\* a write(2) of one of bufs to /proc/prfs_mode; a call that returns before
\* it reads buf[] does not depend on what buf[] holds; stale is what the
\* stack can hold behind the copied bytes
CtlWrite(bufs, offsets, faults, stale) ==
  \E ubuf \in bufs, ppos \in offsets, fault \in faults :
    \E g \in (IF ppos > 0 \/ Len(ubuf) > BUFSIZE \/ fault THEN {<<>>} ELSE stale) :
      prfsproc_write(ubuf, ppos, fault, g)

\* mutant: prfsproc_init starts in mode 0
Init_Permissive ==
  /\ proc_prfs_mode = 0
  /\ ctl_in = <<>>
  /\ ctl_ret = 0
  /\ ctl_stored = FALSE
  /\ \E present \in BOOLEAN :
       files = [n \in FileNames |-> IF n \in OrigNames /\ present THEN File(<<65>>) ELSE NoFile]
  /\ pc = [t \in Threads |-> "idle"]
  /\ req = [t \in Threads |-> NoReq]
  /\ prfs_mode = [t \in Threads |-> 1]
  /\ verdict = [t \in Threads |-> "None"]
  /\ fn2 = [t \in Threads |-> NoName]
  /\ denial = [t \in Threads |-> "none"]
  /\ pre = [t \in Threads |-> <<>>]
  /\ original_filp = [t \in Threads |-> "none"]
  /\ copy_filp = [t \in Threads |-> "none"]
  /\ rd_ret = 0
  /\ rd_out = <<>>
  /\ cb_op = "none"
  /\ cb_fname = NoName
  /\ cb_now = NoTime
  /\ cb_tme = <<>>
  /\ cb_fn2 = NoName
  /\ cb_ret = 0

\* prfsproc_init: proc_prfs_mode = 1.  The original file is there with content
\* "A", or not there yet.
Init ==
  /\ proc_prfs_mode = 1
  /\ ctl_in = <<>>
  /\ ctl_ret = 0
  /\ ctl_stored = FALSE
  /\ \E present \in BOOLEAN :
       files = [n \in FileNames |-> IF n \in OrigNames /\ present THEN File(<<65>>) ELSE NoFile]
  /\ pc = [t \in Threads |-> "idle"]
  /\ req = [t \in Threads |-> NoReq]
  /\ prfs_mode = [t \in Threads |-> 1]
  /\ verdict = [t \in Threads |-> "None"]
  /\ fn2 = [t \in Threads |-> NoName]
  /\ denial = [t \in Threads |-> "none"]
  /\ pre = [t \in Threads |-> <<>>]
  /\ original_filp = [t \in Threads |-> "none"]
  /\ copy_filp = [t \in Threads |-> "none"]
  /\ rd_ret = 0
  /\ rd_out = <<>>
  /\ cb_op = "none"
  /\ cb_fname = NoName
  /\ cb_now = NoTime
  /\ cb_tme = <<>>
  /\ cb_fn2 = NoName
  /\ cb_ret = 0

\* the opens a thread asks for, <<name, write intent>>: t1 opens any name
\* either way, every other thread is one more writer of the original file
Requests(t) ==
  IF t = "t1" THEN FileNames \X BOOLEAN ELSE OrigNames \X {TRUE}

\* the steps of the open of thread t
OpenStep(t) ==
  \/ \E r \in Requests(t) : OpenCall(t, r[1], r[2])
  \/ FileOpen(t)
  \/ \E now \in Times, hostok \in BOOLEAN : MakeBackupOpenSrc(t, now, hostok)
  \/ \E hostok \in BOOLEAN : MakeBackupOpenDst(t, hostok)
  \/ \E k \in 0..MaxData : MakeBackupCopy(t, k)
  \/ Forward(t)
  \/ \E data \in WriteData : UserWrite(t, data)
  \/ Finish(t)

(***************************************************************************)
(* Spec: concurrent opens, the administrator switching between the three   *)
(* modes with well-formed writes ("0\n", "1\n", "2\n" at offset 0).  The    *)
(* newline ends the number whatever follows it, so the bytes behind the    *)
(* text are taken to be a NUL here; SpecCtl lets them vary.                *)
(***************************************************************************)
Next ==
  \/ CtlWrite(ModeBufs, {0}, {FALSE}, {<<>>})
  \/ \E t \in Threads : OpenStep(t)

Spec == Init /\ [][Next]_vars

\* the steps inside one prfs_file_open call, from its entry to its return
InCall(t) ==
  \/ FileOpen(t)
  \/ \E now \in Times, hostok \in BOOLEAN : MakeBackupOpenSrc(t, now, hostok)
  \/ \E hostok \in BOOLEAN : MakeBackupOpenDst(t, hostok)
  \/ \E k \in 0..MaxData : MakeBackupCopy(t, k)
  \/ Forward(t)

\* SpecLive: the opens of one thread under the administrator's mode writes,
\* with every call in the kernel running on: the host-store operations
\* return and the thread is scheduled again
NextLive ==
  \/ CtlWrite(ModeBufs, {0}, {FALSE}, {<<>>})
  \/ OpenStep("t1")

SpecLive == Init /\ [][NextLive]_vars /\ WF_vars(InCall("t1"))

(***************************************************************************)
(* SpecCtl: every kind of write to /proc/prfs_mode, and the opens of one   *)
(* thread deciding under the stored mode.                                  *)
(***************************************************************************)
NextCtl ==
  \/ CtlWrite(UserBufs, {0, 1}, BOOLEAN, Garbage)
  \/ OpenStep("t1")

SpecCtl == Init /\ [][NextCtl]_vars

(***************************************************************************)
(* SpecProc: /proc/prfs_mode alone, written to and read by user space.     *)
(* Besides the texts of SpecCtl: an empty line ("\n") and a digit followed *)
(* by a letter ("2x\n").                                                   *)
(***************************************************************************)
ProcBufs == UserBufs \cup {<<CH_NL>>, <<CH_0 + 2, 120, CH_NL>>}

\* the sizes of the reader's buffer: one byte short of BUFSIZE, and BUFSIZE
ReadCounts == {BUFSIZE - 1, BUFSIZE}

\* a read(2) of /proc/prfs_mode
CtlRead(counts, offsets, faults) ==
  \E count \in counts, ppos \in offsets, fault \in faults :
    prfsproc_read(count, ppos, fault)

NextProc ==
  \/ CtlWrite(ProcBufs, {0, 1}, BOOLEAN, Garbage)
  \/ CtlRead(ReadCounts, {0, 1}, BOOLEAN)

SpecProc == Init /\ [][NextProc]_vars

(***************************************************************************)
(* SpecCodec: the name codec on its own, over names and clock values that  *)
(* the opens of Spec do not reach.                                         *)
(***************************************************************************)
\* "_0123456789012_r"
CodecBase == <<CH_US>> \o [i \in 1..13 |-> CH_0 + ((i - 1) % 10)] \o <<CH_US, 114>>

\* the characters put in place of one of the first 15: '/', ':', '0', '_', 'a'
CodecChars == {CH_0 - 1, CH_9 + 1, CH_0, CH_US, 97}

\* names tested: every prefix of the base name (lengths 0..16), and the base
\* name with any one of its first 15 characters replaced
CheckNames ==
  {Take(CodecBase, n) : n \in 0..Len(CodecBase)} \cup
  {[CodecBase EXCEPT ![i] = c] : i \in 1..BackupPrefixLen, c \in CodecChars}

\* names backed up: "r", "_r", a name that is itself a backup name, and a name
\* of 250 characters (fn2[260] cuts it)
BuildNames == {<<114>>, <<CH_US, 114>>, CodecBase, [i \in 1..250 |-> 97]}

\* tv_sec (hi * 10^9 + lo): 5, 1700000000, 10^10 - 1, 10^10, 12345678901,
\* 10^15 - 1, 10^15, 1234567890123456
CodecSecs ==
  { [hi |-> 0, lo |-> 5], [hi |-> 1, lo |-> 700000000], [hi |-> 9, lo |-> 999999999],
    [hi |-> 10, lo |-> 0], [hi |-> 12, lo |-> 345678901], [hi |-> 999999, lo |-> 999999999],
    [hi |-> 1000000, lo |-> 0], [hi |-> 1234567, lo |-> 890123456] }

\* tv_nsec: around one millisecond, and where rounding would carry
CodecNsecs == {0, 999999, 1000000, 1999999, 999500000, 999999999}

CodecTimes == {[tv_sec |-> sec, tv_nsec |-> nsec] : sec \in CodecSecs, nsec \in CodecNsecs}

NextCodec ==
  \/ \E fname \in CheckNames : CallFilenameBackup(fname)
  \/ \E now \in CodecTimes, fname \in BuildNames : BuildBackupName(now, fname)

SpecCodec == Init /\ [][NextCodec]_vars


(***************************************************************************)
(* Vocabulary of the properties.                                           *)
(***************************************************************************)
\* a backup name: '_', 13 decimal digits, '_', then anything
IsBackupName(n) ==
  /\ Len(n) >= 15
  /\ n[1] = CH_US
  /\ n[15] = CH_US
  /\ \A i \in 2..14 : n[i] \in CH_0..CH_9

\* thread t is inside prfs_file_open, past the switch
Decided(t) == pc[t] \in {"mb_src", "mb_dst", "mb_copy", "nested", "forward", "denied"}

\* the decimal text of an integer, and the texts that denote it (with or
\* without the newline that echo appends)
IntText(v) == IF v < 0 THEN <<CH_MINUS>> \o DecDigits(0 - v) ELSE DecDigits(v)
Denotes(ubuf, v) == ubuf = IntText(v) \/ ubuf = IntText(v) \o <<CH_NL>>

\* the 10 decimal digits of sec mod 10^10 (sec = hi * 10^9 + lo), and the 3
\* digits of the whole milliseconds in nsec
SecMod10Digits(tv_sec) == DecDigits(tv_sec.hi % 10) \o ZeroPad(9, DecDigits(tv_sec.lo))
MsDigits(tv_nsec) == ZeroPad(3, DecDigits(tv_nsec \div 1000000))

\* sec < 10^15: its decimal text has at most 15 digits
FitsIn15Digits(tv_sec) == tv_sec.hi < 1000000

\* the decision table: the verdict for a request under a mode in 0..2
TableVerdict(mode, r) ==
  IF ~r.write THEN "Allow"
  ELSE IF mode = 1 THEN "Deny"
  ELSE IF mode = 2 THEN (IF IsBackupName(r.name) THEN "Allow" ELSE "Deny")
  ELSE IF IsBackupName(r.name) THEN (IF r.justCreated THEN "Allow" ELSE "Deny")
  ELSE IF r.justCreated THEN "Allow" ELSE "AllowAfterBackup"

\* a step of prfsproc_write that changed what the control plane shows
CtlStep == ctlvars' # ctlvars

\* a text that is a decimal integer: an optional '-', one or more digits, and
\* nothing else but the newline that may end it
IsDecimalText(ubuf) ==
  LET line == IF ubuf # <<>> /\ ubuf[Len(ubuf)] = CH_NL THEN SubSeq(ubuf, 1, Len(ubuf) - 1) ELSE ubuf
      body == IF line # <<>> /\ line[1] = CH_MINUS THEN Tail(line) ELSE line
  IN  body # <<>> /\ \A i \in 1..Len(body) : body[i] \in CH_0..CH_9

(***************************************************************************)
(* C1. In Permissive mode a write open of a pre-existing non-backup file   *)
(* is forwarded to generic_file_open only after prfs_make_backup returned  *)
(* 0, and at that point a backup file exists whose content is the content  *)
(* the original had before the call.                                       *)
(***************************************************************************)
C1_BackupBeforeForward ==
  \A t \in Threads :
    (pc[t] = "forward" /\ verdict[t] = "AllowAfterBackup")
      => \E b \in FileNames : IsBackupName(b) /\ files[b] = File(pre[t])

(***************************************************************************)
(* C2. Fail-closed: when the backup of a Permissive write open fails at    *)
(* any stage (source open, destination open, or a copy that is not the     *)
(* whole source) the open is denied: prfs_make_backup hands the open on to *)
(* generic_file_open only with the destination a complete copy of the      *)
(* source.                                                                 *)
(***************************************************************************)
C2_FailClosed ==
  [][\A t \in Threads :
       (pc[t] = "mb_copy" /\ pc'[t] # "mb_copy")
         => \/ pc'[t] = "denied"
            \/ files'[fn2[t]] = File(files[req[t].name].data)]_vars

(***************************************************************************)
(* C3. prfs_make_backup never overwrites a backup that is already there:   *)
(* when the destination name exists as it opens the destination, the       *)
(* destination keeps its content, prfs_make_backup fails and the open is   *)
(* denied.                                                                 *)
(***************************************************************************)
C3_NoOverwrite ==
  [][\A t \in Threads :
       (pc[t] = "mb_dst" /\ pc'[t] # "mb_dst" /\ files[fn2[t]].exists)
         => (pc'[t] = "denied" /\ files'[fn2[t]] = files[fn2[t]])]_vars

(***************************************************************************)
(* C4. WORM.  As claimed: a write open of an existing backup name          *)
(* (justCreated false) is denied in Permissive and in BackupOnly mode.     *)
(***************************************************************************)
C4_WormBothModes ==
  \A t \in Threads :
    (Decided(t) /\ prfs_mode[t] \in {0, 2} /\ req[t].write
       /\ IsBackupName(req[t].name) /\ ~req[t].justCreated)
      => (verdict[t] = "Deny" /\ pc[t] = "denied")

\* C4 as amended: a write open of an existing backup name (justCreated false)
\* is denied in Permissive mode; in BackupOnly mode it is allowed.
C4_WormPermissive ==
  \A t \in Threads :
    (Decided(t) /\ req[t].write /\ IsBackupName(req[t].name) /\ ~req[t].justCreated)
      => /\ prfs_mode[t] = 0 => (verdict[t] = "Deny" /\ pc[t] = "denied" /\ fn2[t] = NoName)
         /\ prfs_mode[t] = 2 => (verdict[t] = "Allow" /\ pc[t] = "forward")

C4_Witness ==
  \E t \in Threads :
    /\ pc[t] = "denied" /\ prfs_mode[t] = 0 /\ req[t].write
    /\ IsBackupName(req[t].name) /\ ~req[t].justCreated
    /\ files[req[t].name].exists

(***************************************************************************)
(* C5. In ReadOnly mode every open with write intent is denied, whatever   *)
(* the name and justCreated, and that open makes no backup (it never       *)
(* enters prfs_make_backup).                                               *)
(***************************************************************************)
C5_ReadOnlyDenies ==
  \A t \in Threads :
    (Decided(t) /\ prfs_mode[t] = 1 /\ req[t].write)
      => (verdict[t] = "Deny" /\ pc[t] = "denied" /\ fn2[t] = NoName)

C5_Witness ==
  \E t \in Threads :
    /\ pc[t] = "denied" /\ prfs_mode[t] = 1 /\ req[t].write
    /\ IsBackupName(req[t].name) /\ req[t].justCreated

(***************************************************************************)
(* C6. In BackupOnly mode: write to a non-backup name => Deny; write to a  *)
(* backup name => Allow, whatever justCreated; read => Allow.              *)
(***************************************************************************)
C6_BackupOnlyTable ==
  \A t \in Threads :
    (Decided(t) /\ prfs_mode[t] = 2)
      => verdict[t] = (IF req[t].write /\ ~IsBackupName(req[t].name) THEN "Deny" ELSE "Allow")

C6_Witness ==
  \E t \in Threads :
    /\ pc[t] = "forward" /\ prfs_mode[t] = 2 /\ verdict[t] = "Allow"
    /\ req[t].write /\ IsBackupName(req[t].name) /\ ~req[t].justCreated

(***************************************************************************)
(* C7. In Permissive mode: read => Allow; write to a backup name =>        *)
(* Allow if justCreated, else Deny; write to a non-backup name => Allow    *)
(* with no backup made if justCreated, else AllowAfterBackup.              *)
(***************************************************************************)
C7_PermissiveTable ==
  \A t \in Threads :
    (Decided(t) /\ prfs_mode[t] = 0)
      => /\ verdict[t] =
              (IF ~req[t].write THEN "Allow"
               ELSE IF IsBackupName(req[t].name)
                    THEN (IF req[t].justCreated THEN "Allow" ELSE "Deny")
                    ELSE (IF req[t].justCreated THEN "Allow" ELSE "AllowAfterBackup"))
         /\ verdict[t] = "Allow" => (pc[t] = "forward" /\ fn2[t] = NoName)
         /\ verdict[t] = "Deny" => pc[t] = "denied"

C7_Witness ==
  \E t, u \in Threads :
    /\ pc[t] = "mb_src" /\ prfs_mode[t] = 0 /\ verdict[t] = "AllowAfterBackup"
    /\ pc[u] = "forward" /\ prfs_mode[u] = 0 /\ verdict[u] = "Allow"
    /\ req[u].write /\ req[u].justCreated /\ ~IsBackupName(req[u].name)

(***************************************************************************)
(* C8. Two concurrent Permissive write opens of the same pre-existing      *)
(* non-backup file in the same millisecond: one backup file is made, it is *)
(* a complete copy of the original, and both opens are allowed.  Stated on *)
(* what a finite run shows: neither open is refused because the backup     *)
(* name is already taken, and when both are handed on the backup holds the *)
(* content the file had when they were called.                             *)
(***************************************************************************)
C8_ConcurrentWriters ==
  \A t, u \in Threads :
    (t # u /\ verdict[t] = "AllowAfterBackup" /\ verdict[u] = "AllowAfterBackup"
       /\ req[t].name = req[u].name /\ fn2[t] # NoName /\ fn2[t] = fn2[u]
       /\ pc[u] \in {"mb_copy", "forward"} /\ get_prfs_mode = 0)
      => /\ denial[t] # "backup_dst_open"
         /\ pc[t] = "forward" => files[fn2[t]] = File(pre[t])

C10_RoundTrip ==
  [][\A v \in 0..2 :
       /\ (CtlStep /\ Denotes(ctl_in', v) /\ ctl_ret' > 0)
            => (get_proc_prfs_mode' = v /\ get_prfs_mode' = v)
       /\ \A t \in Threads :
            (ctl_ret > 0 /\ Denotes(ctl_in, v) /\ pc[t] = "entry" /\ pc'[t] # "entry")
              => prfs_mode'[t] = v]_vars

(***************************************************************************)
(* C11. A write to /proc/prfs_mode whose text is not a decimal integer, or *)
(* that is longer than the input buffer (count > 100), or that is made at  *)
(* a non-zero offset, returns an error and leaves the stored mode as it    *)
(* was.                                                                    *)
(***************************************************************************)
C11_BadWriteRejected ==
  [][\A ubuf \in ProcBufs, ppos \in {0, 1}, fault \in BOOLEAN, g \in Garbage :
       (/\ prfsproc_write(ubuf, ppos, fault, g)
        /\ (~IsDecimalText(ubuf) \/ Len(ubuf) > BUFSIZE \/ ppos > 0))
         => (ctl_ret' < 0 /\ proc_prfs_mode' = proc_prfs_mode)]_vars

(***************************************************************************)
(* C12. After any sequence of writes to /proc/prfs_mode, a read at offset  *)
(* 0 returns the current mode as a decimal string ending in a newline,     *)
(* and that string is one of "0\n", "1\n", "2\n".                          *)
(***************************************************************************)
C12_ReadShowsMode ==
  [][\A count \in ReadCounts :
       prfsproc_read(count, 0, FALSE)
         => /\ rd_out' \in {IntText(v) \o <<CH_NL>> : v \in 0..2}
            /\ rd_out' = IntText(get_prfs_mode) \o <<CH_NL>>
            /\ rd_ret' = Len(rd_out')]_vars

(***************************************************************************)
(* C13. The initial mode is ReadOnly (1): in every state reached before    *)
(* the first successful write to /proc/prfs_mode the stored mode is 1,     *)
(* every open with write intent that has been decided is denied, no write  *)
(* handle is open, and no open is inside prfs_make_backup.                 *)
(***************************************************************************)
C13_InitialReadOnly ==
  ~ctl_stored =>
    /\ get_proc_prfs_mode = 1
    /\ \A t \in Threads :
         /\ (Decided(t) /\ req[t].write)
              => (verdict[t] = "Deny" /\ pc[t] = "denied" /\ fn2[t] = NoName)
         /\ pc[t] = "opened" => ~req[t].write
         /\ pc[t] \notin {"mb_src", "mb_dst", "mb_copy", "nested"}

\* a write open of the existing original is denied after nothing but a
\* failed write to /proc/prfs_mode
C13_Witness ==
  /\ ~ctl_stored /\ ctl_in # <<>> /\ ctl_ret < 0
  /\ \E t \in Threads :
       /\ pc[t] = "denied" /\ req[t].write /\ ~req[t].justCreated
       /\ req[t].name \in OrigNames

(***************************************************************************)
(* C14. Backup creation is all-or-nothing: when prfs_make_backup fails     *)
(* (the open is denied from inside it), a destination file that this call  *)
(* created is not left in the host store.                                  *)
(***************************************************************************)
C14_AllOrNothing ==
  [][\A t \in Threads :
       (/\ pc[t] \in {"mb_src", "mb_dst", "mb_copy"} /\ pc'[t] = "denied"
        /\ ~files[fn2'[t]].exists)
         => ~files'[fn2'[t]].exists]_vars

C16_BuiltNameIsBackup ==
  cb_op = "build" =>
    /\ Len(cb_tme) = 15
    /\ Take(cb_fn2, 15) = cb_tme
    /\ Drop(cb_fn2, 15) = Take(cb_fname, Len(cb_fn2) - 15)
    /\ cb_ret = 1
    /\ IsBackupName(cb_fn2)

\* a name of 250 characters has been given a prefix at a clock of 10^15
\* seconds or more
C16_Witness ==
  /\ cb_op = "build" /\ cb_ret = 1
  /\ Len(cb_fname) = 250 /\ Len(cb_fn2) = 259
  /\ cb_now.tv_sec.hi >= 1000000

C18_SourceUnavailable ==
  [][\A t \in Threads :
       (/\ pc[t] = "mb_src" /\ pc'[t] # "mb_src"
        /\ (~files[req[t].name].exists \/ Len(files[req[t].name].data) = 0))
         => (pc'[t] = "denied" /\ files' = files)]_vars

(***************************************************************************)
(* C19. The mode an open decides under (what get_prfs_mode returns) is     *)
(* always 0, 1 or 2: a stored value below 0 or above 2 counts as ReadOnly  *)
(* (1).  So the switch of prfs_file_open never takes its default branch,   *)
(* and an open with write intent that decides while the stored value is    *)
(* out of range is denied.                                                 *)
(***************************************************************************)
C19_EffectiveModeInRange ==
  [][/\ get_prfs_mode' \in 0..2
     /\ get_proc_prfs_mode' \notin 0..2 => get_prfs_mode' = 1
     /\ \A t \in Threads :
          /\ Decided(t)' => prfs_mode'[t] \in 0..2
          /\ (/\ pc[t] = "entry" /\ pc'[t] # "entry"
              /\ get_proc_prfs_mode \notin 0..2 /\ req[t].write)
               => (prfs_mode'[t] = 1 /\ verdict'[t] = "Deny" /\ pc'[t] = "denied")]_vars

\* the stored mode is -1 and a write open has been denied under mode 1
C19_Witness ==
  /\ get_proc_prfs_mode < 0 /\ get_prfs_mode = 1
  /\ \E t \in Threads :
       /\ pc[t] = "denied" /\ prfs_mode[t] = 1 /\ req[t].write
       /\ IsBackupName(req[t].name)

(***************************************************************************)
(* C20. An open with read intent only is allowed (handed on to             *)
(* generic_file_open) whatever has been written to /proc/prfs_mode, for    *)
(* every name and justCreated, and it never enters prfs_make_backup.       *)
(***************************************************************************)
C20_ReadAlwaysAllowed ==
  \A t \in Threads :
    (Decided(t) /\ ~req[t].write)
      => (verdict[t] = "Allow" /\ pc[t] = "forward" /\ fn2[t] = NoName /\ denial[t] = "none")

\* a read-only open that created its file is handed on while the stored mode
\* is 3
C20_Witness ==
  /\ get_proc_prfs_mode = 3
  /\ \E t \in Threads :
       /\ pc[t] = "forward" /\ prfs_mode[t] = 1 /\ verdict[t] = "Allow"
       /\ ~req[t].write /\ req[t].justCreated /\ ~IsBackupName(req[t].name)

(***************************************************************************)
(* C21. A denial by the decision table (ReadOnly write, BackupOnly write   *)
(* to a non-backup name, Permissive write to an existing backup name) is   *)
(* terminal and without side effect: the open is not handed on to          *)
(* generic_file_open, no backup is attempted, the mode and every file are  *)
(* as they were, and the only thing the open does next is return.          *)
(***************************************************************************)
C21_DenialTerminal ==
  [][\A t \in Threads :
       /\ (pc[t] = "entry" /\ pc'[t] # "entry" /\ TableVerdict(get_prfs_mode, req[t]) = "Deny")
            => /\ pc'[t] = "denied" /\ denial'[t] = "decision" /\ fn2'[t] = NoName
               /\ files' = files /\ proc_prfs_mode' = proc_prfs_mode
       /\ (pc[t] = "denied" /\ denial[t] = "decision" /\ pc'[t] # "denied")
            => /\ pc'[t] = "idle" /\ fn2[t] = NoName
               /\ files' = files /\ proc_prfs_mode' = proc_prfs_mode]_vars

\* a write open of the existing original has been denied under BackupOnly
C21_Witness ==
  \E t \in Threads :
    /\ pc[t] = "denied" /\ denial[t] = "decision" /\ prfs_mode[t] = 2
    /\ req[t].write /\ ~req[t].justCreated /\ req[t].name \in OrigNames
    /\ files[req[t].name] = File(<<65>>)


(***************************************************************************)
(* C22: every handle prfs_make_backup opened is closed when it returns     *)
(***************************************************************************)
\* prfs_make_backup has returned in thread t: its caller is about to return -1
\* or to forward the open
MakeBackupReturned(t) ==
  /\ fn2[t] # NoName
  /\ \/ pc[t] = "forward"
     \/ pc[t] = "denied" /\ denial[t] \in {"backup_src", "backup_dst_host", "backup_dst_open"}

\* C22: on every exit path of prfs_make_backup (success, source-open failure,
\* destination-open failure) no handle that the call opened is still open
C22_HandlesClosed ==
  \A t \in Threads :
    MakeBackupReturned(t) => original_filp[t] # "open" /\ copy_filp[t] # "open"

(***************************************************************************)
(* C23: history retention while the mode is Permissive                     *)
(***************************************************************************)
\* some backup file holds exactly the bytes d
HeldInBackup(d) ==
  \E b \in FileNames : IsBackupName(b) /\ files[b].exists /\ files[b].data = d

\* C23: with the mode Permissive, when a write open of a pre-existing
\* non-backup file is allowed (prfs_make_backup returned 0 and the open is
\* forwarded), the content the file had at the moment of that open is held,
\* unchanged, in some backup file
C23_HistoryRetained ==
  [][(get_prfs_mode = 0 /\ get_prfs_mode' = 0)
       => \A t \in Threads :
            (/\ pc[t] = "forward" /\ pc'[t] = "opened"
             /\ prfs_mode[t] = 0 /\ verdict[t] = "AllowAfterBackup")
              => HeldInBackup(pre[t])]_vars


(***************************************************************************)
(* C24: bounded re-entrancy and termination                                *)
(***************************************************************************)
\* how many steps a call at this point has at most before it returns
CallRank(p) ==
  CASE p = "entry" -> 5
    [] p = "mb_src" -> 4
    [] p = "mb_dst" -> 3
    [] p = "mb_copy" -> 2
    [] p = "forward" -> 1
    [] OTHER -> 0

\* C24: neither open made inside prfs_make_backup is decided as
\* AllowAfterBackup (no call reaches a nested prfs_make_backup), a call goes
\* through the backup stages at most once and in order, and every
\* prfs_file_open that was entered returns, allowed or denied
C24_BoundedReentrancy ==
  /\ [](\A t \in Threads : pc[t] # "nested")
  /\ [][\A t \in Threads :
          /\ (pc[t] \in {"entry", "mb_src", "mb_dst", "mb_copy", "forward"} /\ pc'[t] # pc[t])
               => /\ CallRank(pc'[t]) < CallRank(pc[t])
                  /\ pc'[t] \in {"mb_src", "mb_dst", "mb_copy", "forward", "opened", "denied"}
          /\ (pc'[t] = "mb_src" /\ pc[t] # "mb_src") => pc[t] = "entry"]_vars
  /\ \A t \in Threads : (pc[t] = "entry") ~> (pc[t] \in {"opened", "denied"})

\* a backup found its destination name taken (an earlier backup of the same
\* millisecond): the destination open was decided, and denied
C24_Witness ==
  \E t \in Threads :
    /\ pc[t] = "denied" /\ denial[t] = "backup_dst_open"
    /\ verdict[t] = "AllowAfterBackup" /\ prfs_mode[t] = 0
    /\ get_prfs_mode = 0
    /\ files[fn2[t]].exists


(***************************************************************************)
(* C25: one sample of the mode per open                                    *)
(***************************************************************************)
\* C25: prfs_file_open takes the clamped mode once, when it is entered; the
\* branch it takes is the decision table's for that value and the request,
\* and neither changes for the rest of the call, whatever is written to
\* /proc/prfs_mode meanwhile.  An open denied by the decision is one the
\* table denies under the sampled mode; an open forwarded is one it does
\* not deny.
C25_SingleSample ==
  [][\A t \in Threads :
       /\ (pc[t] = "entry" /\ pc'[t] # "entry")
            => /\ prfs_mode'[t] = get_prfs_mode
               /\ prfs_mode'[t] \in 0..2
               /\ req'[t] = req[t]
               /\ verdict'[t] = TableVerdict(prfs_mode'[t], req[t])
       /\ (Decided(t) /\ Decided(t)')
            => /\ prfs_mode'[t] = prfs_mode[t]
               /\ verdict'[t] = verdict[t]
               /\ req'[t] = req[t]
       /\ (Decided(t) /\ pc[t] # "denied" /\ pc'[t] = "denied")
            => TableVerdict(prfs_mode[t], req[t]) = "AllowAfterBackup"
       /\ (pc[t] = "forward" /\ pc'[t] = "opened")
            => TableVerdict(prfs_mode[t], req[t]) \in {"Allow", "AllowAfterBackup"}]_vars

\* an open that sampled Permissive is in its backup while /proc/prfs_mode
\* holds 3 (read as 1 by the next open)
C25_Witness ==
  \E t \in Threads :
    /\ pc[t] = "mb_dst" /\ prfs_mode[t] = 0 /\ verdict[t] = "AllowAfterBackup"
    /\ proc_prfs_mode = 3 /\ get_prfs_mode = 1


====
